---- MODULE Spec2Model ----
(***************************************************************************)
(* permutohedron: Heap's algorithm for generating permutations.            *)
(*                                                                         *)
(*   Heap            the iterative walker (src/src/lib.rs:114-204)         *)
(*   heap_recursive  the recursive, unrolled version (src/src/lib.rs:38-85)*)
(*                                                                         *)
(* Slices are modelled as sequences; a Rust index k is position k + 1.     *)
(* The counter array c keeps the Rust indices 0 .. MAXHEAP - 2.            *)
(***************************************************************************)
EXTENDS Integers, Sequences, FiniteSets, TLC

(* ---------------------------- bounds ----------------------------------- *)

\* longest input of the walker when reset is part of the behaviour
MaxLen == 3
\* longest input of a single uninterrupted enumeration of the walker
MaxRunLen == 6
\* longest input of the recursive version
MaxRecLen == 5
\* longest input when both versions run side by side
MaxBothLen == 5
\* inputs of up to this length take every combination of element values
MaxArbLen == 2
\* number of reset calls in one behaviour
MaxResets == 1
\* how far beyond MAXHEAP the lengths handed to Heap::new go
MaxOver == 1
\* number of permutations requested from a walker over a long input
MaxCalls == 130
\* longest input of the lexical helper
MaxLexLen == 5
\* largest value carried by Control::Break and by Err
MaxCtlVal == 9
\* largest argument of factorial
MaxFactArg == 11

(* ------------------------- program constants --------------------------- *)

\* pub const MAXHEAP: usize = 16
MAXHEAP == 16

\* !0 of type u32 (all bits set), the "not started" marker of Heap::n.  The
\* model's integers are 32 bits wide, so the value is written in its two's
\* complement reading; every other value of n is a level index >= 0.
Sentinel == -1

\* number of values of a u8 counter
U8Range == 256

(* ------------------------------ helpers -------------------------------- *)

\* the test input  elt = index + 1
Identity(len) == [i \in 1..len |-> i]

\* the test input  [0; len]
Zeros(len) == [i \in 1..len |-> 0]

\* the sequences handed to the two versions, up to length maxlen
Inputs(maxlen) ==
    {Identity(len) : len \in 0..maxlen}
        \cup {Zeros(len) : len \in 0..maxlen}
        \cup UNION {[1..len -> 1..len] : len \in 0..MaxArbLen}

\* slice::swap(a, b) with Rust indices a, b
SliceSwap(xs, a, b) ==
    [k \in 1..Len(xs) |->
        IF k = a + 1 THEN xs[b + 1] ELSE IF k = b + 1 THEN xs[a + 1] ELSE xs[k]]

\* to_owned / to_vec of a slice: a new vector with a clone of every element
ToOwned(xs) == [k \in 1..Len(xs) |-> xs[k]]

\* pub fn factorial(n: usize) -> usize:  (1..n + 1).fold(1, |a, b| a * b)
RECURSIVE FactorialFold(_, _, _)
FactorialFold(a, b, end) ==
    IF b < end THEN FactorialFold(a * b, b + 1, end) ELSE a

\* a variant over the range 1..n, one short
factorialExclusive(len) == FactorialFold(1, 1, len)

factorial(len) == FactorialFold(1, 1, len + 1)

Reverse(s) == [k \in 1..Len(s) |-> s[Len(s) + 1 - k]]

\* the elements of s with their multiplicities
Multiset(s) ==
    [v \in {s[k] : k \in 1..Len(s)} |-> Cardinality({k \in 1..Len(s) : s[k] = v})]

Distinct(s) == \A a, b \in 1..Len(s) : s[a] = s[b] => a = b

(* ------------------------------- state --------------------------------- *)

VARIABLES
    data,       \* Heap::data, the caller's slice the walker borrows
    n,          \* Heap::n
    c,          \* Heap::c, indexed 0 .. MAXHEAP - 2; <<>> before Heap::new
    ret,        \* outcome of the last call on the walker
    mode,       \* how the caller drives the walker: "direct" or "iter"
    orig,       \* the input arrangement
    start,      \* the arrangement at Heap::new or at the last reset
    count,      \* permutations returned since Heap::new or the last reset
    items,      \* the vector the caller collects the Iterator's items into
    runs,       \* count, items and last outcome of the runs ended by reset
    xs,         \* the slice handed to heap_recursive
    stack,      \* call stack of heap_recursive / heap_unrolled_
    rstate,     \* "idle", "running" or "returned"
    visited,    \* the arrangements the callback has copied
    swaps,      \* swaps heap_recursive has made since the last callback
    farg,       \* the argument of the last factorial call
    fres,       \* what that call returned; -1 before any call
    lex,        \* the slice handed to the lexical helper
    lexprev,    \* its arrangement before the last call of the helper
    lexret,     \* what the last call returned: "true", "false"; "idle" before
    lexcount,   \* how many calls have returned true
    ctlarg,     \* the value a ControlFlow method is applied to
    ctlop,      \* the method applied last; "idle" before
    ctlres      \* what it returned

heapVars == <<data, n, c, ret, mode, orig, start, count, items, runs>>
recVars == <<xs, stack, rstate, visited, swaps>>
factVars == <<farg, fres>>
lexVars == <<lex, lexprev, lexret, lexcount>>
ctlVars == <<ctlarg, ctlop, ctlres>>
vars == <<data, n, c, ret, mode, orig, start, count, items, runs,
          xs, stack, rstate, visited, swaps,
          farg, fres, lex, lexprev, lexret, lexcount, ctlarg, ctlop, ctlres>>

\* no Heap exists yet: nothing stands for the counter array
NoCounters == << >>

\* the unit value (), also what stands for "nothing returned yet"
Unit == [type |-> "unit", tag |-> "unit", val |-> 0]

\* no factorial call yet
FactIdle == farg = 0 /\ fres = -1

\* the lexical helper has not been called
LexIdle == lexprev = << >> /\ lexret = "idle" /\ lexcount = 0

\* no ControlFlow method has been applied
CtlIdle == ctlop = "idle" /\ ctlres = << >>

\* everything but the slice of the lexical helper and the ControlFlow value
InitBase(inputs) ==
    /\ data \in inputs
    /\ orig = data
    /\ start = data
    /\ xs = data
    /\ n = 0
    /\ c = NoCounters
    /\ ret = "unbuilt"
    /\ mode \in {"direct", "iter"}
    /\ count = 0
    /\ items = << >>
    /\ runs = << >>
    /\ stack = << >>
    /\ rstate = "idle"
    /\ visited = << >>
    /\ swaps = 0
    /\ FactIdle
    /\ LexIdle
    /\ CtlIdle

InitWith(inputs) ==
    /\ InitBase(inputs)
    /\ lex = << >>
    /\ ctlarg = Unit

Built == ret \in {"new", "some", "none", "reset"}

(* ------------------------------ Heap::new ------------------------------ *)

\* a variant whose limit is one too large
NewAcceptsOneMore(len) == len <= MAXHEAP + 1

\* assert!(data.as_mut().len() <= MAXHEAP)
NewAccepts(len) == len <= MAXHEAP

\* c: [0; MAXHEAP - 1]
NewCounters == [k \in 0..(MAXHEAP - 2) |-> 0]

New ==
    /\ ret = "unbuilt"
    /\ IF NewAccepts(Len(data))
       THEN /\ n' = Sentinel
            /\ c' = NewCounters
            /\ ret' = "new"
       ELSE /\ ret' = "assert_failed"
            /\ UNCHANGED <<n, c>>
    /\ UNCHANGED <<data, mode, orig, start, count, items, runs>>
    /\ UNCHANGED recVars
    /\ UNCHANGED <<factVars, lexVars, ctlVars>>

(* ------------------------- Heap::next_permutation ---------------------- *)

\* a variant that always swaps with index 0
SwapPartnerAlwaysZero(nu, cnu) == 0

\* a variant with the parity test inverted
SwapPartnerOddLevels(nu, cnu) == IF nu % 2 = 1 THEN cnu ELSE 0

\* let j = if nu % 2 == 0 { c[nu] as usize } else { 0 }
SwapPartner(nu, cnu) == IF nu % 2 = 0 THEN cnu ELSE 0

\* a variant with  <  for  <=
LevelHasWorkStrict(cnu, n8) == cnu < n8

\* a variant that lets a level make one swap more
LevelHasWorkOneMore(cnu, n8) == cnu <= n8 + 1

\* if c[nu] <= n : the level nu still has a swap to make
LevelHasWork(cnu, n8) == cnu <= n8

\* the while loop of next_permutation, from position nn with counters cc.
\* Indexing c or the slice out of bounds panics; c[nu] += 1 beyond a u8
\* is reported as "overflow" (a panic in a debug build, a wrap otherwise).
RECURSIVE Scan(_, _, _)
Scan(d, nn, cc) ==
    IF 1 + nn < Len(d)
    THEN LET n8 == nn % U8Range
             nu == nn
         IN  IF nu \notin DOMAIN cc
             THEN [ret |-> "index_panic", data |-> d, n |-> nn, c |-> cc]
             ELSE IF LevelHasWork(cc[nu], n8)
             THEN LET j == SwapPartner(nu, cc[nu])
                  IN  IF j >= Len(d) \/ nu + 1 >= Len(d)
                      THEN [ret |-> "index_panic", data |-> d, n |-> nn, c |-> cc]
                      ELSE IF cc[nu] + 1 >= U8Range
                      THEN [ret |-> "overflow", data |-> SliceSwap(d, j, nu + 1),
                            n |-> nn, c |-> [cc EXCEPT ![nu] = 0]]
                      ELSE [ret |-> "some", data |-> SliceSwap(d, j, nu + 1),
                            n |-> 0, c |-> [cc EXCEPT ![nu] = cc[nu] + 1]]
             ELSE Scan(d, nn + 1, [cc EXCEPT ![nu] = 0])
    ELSE [ret |-> "none", data |-> d, n |-> nn, c |-> cc]

\* a variant without the branch for the first call: it steps at once
FirstCallSteps(d, nn, cc) == Scan(d, 0, cc)

\* if self.n == !0 { self.n = 0; Some(self.data) } else { while ... }
FirstCall(d, nn, cc) == [ret |-> "some", data |-> d, n |-> 0, c |-> cc]

\* a variant that starts over once the scan would find nothing
NextPermutationResultRestarts(d, nn, cc) ==
    IF nn = Sentinel \/ 1 + nn >= Len(d) THEN FirstCall(d, nn, cc) ELSE Scan(d, nn, cc)

NextPermutationResult(d, nn, cc) ==
    IF nn = Sentinel THEN FirstCall(d, nn, cc) ELSE Scan(d, nn, cc)

\* a call of next_permutation by the caller:  while let Some(_) = ... { i += 1 }
NextPermutation ==
    /\ Built
    /\ mode = "direct"
    /\ LET r == NextPermutationResult(data, n, c)
       IN  /\ data' = r.data
           /\ n' = r.n
           /\ c' = r.c
           /\ ret' = r.ret
           /\ count' = IF r.ret = "some" THEN count + 1 ELSE count
    /\ UNCHANGED <<mode, orig, start, items, runs>>
    /\ UNCHANGED recVars
    /\ UNCHANGED <<factVars, lexVars, ctlVars>>

\* Iterator::next: next_permutation, and an owned copy of what it returns;
\* the caller collects the copies
IterNext ==
    /\ Built
    /\ mode = "iter"
    /\ LET r == NextPermutationResult(data, n, c)
       IN  /\ data' = r.data
           /\ n' = r.n
           /\ c' = r.c
           /\ ret' = r.ret
           /\ count' = IF r.ret = "some" THEN count + 1 ELSE count
           /\ items' = IF r.ret = "some" THEN Append(items, ToOwned(r.data)) ELSE items
    /\ UNCHANGED <<mode, orig, start, runs>>
    /\ UNCHANGED recVars
    /\ UNCHANGED <<factVars, lexVars, ctlVars>>

(* ------------------------------ Heap::reset ---------------------------- *)

\* a variant that leaves the counters as they are
ResetCountersKept(cc) == cc

\* for c in &mut self.c[..] { *c = 0; }
ResetCounters(cc) == [k \in DOMAIN cc |-> 0]

\* a variant that puts the position to 0, the value after the first call
ResetPositionZero(nn) == 0

\* self.n = !0
ResetPosition(nn) == Sentinel

\* reset; the caller starts a new collection, the finished one is kept
Reset ==
    /\ Built
    /\ Len(runs) < MaxResets
    /\ n' = ResetPosition(n)
    /\ c' = ResetCounters(c)
    /\ ret' = "reset"
    /\ start' = data
    /\ runs' = Append(runs, [start |-> start, count |-> count, items |-> items, ret |-> ret])
    /\ count' = 0
    /\ items' = << >>
    /\ UNCHANGED <<data, mode, orig>>
    /\ UNCHANGED recVars
    /\ UNCHANGED <<factVars, lexVars, ctlVars>>

(* ---------------------- heap_recursive / heap_unrolled_ ---------------- *)

(* A frame is [fn, n, i, pc]: the function, its n (the slice length for     *)
(* heap_recursive), the loop variable i of heap_unrolled_, and the source   *)
(* line of lib.rs the frame is about to execute.                            *)

\* match xs.len() { 0 | 1 => line 41, 2 => line 44, n => line 48 }
RecursiveEntry(len) == IF len <= 1 THEN 41 ELSE IF len = 2 THEN 44 ELSE 48

\* match n { 3 => line 63, n => line 76 }
UnrolledEntry(m) == IF m = 3 THEN 63 ELSE 76

\* the lines that are  f(xs)
CallbackLines == {41, 44, 46, 63, 65, 67, 69, 71, 73}

\* the lines that are  xs.swap(..)  with literal indices
LiteralSwapLines == {45, 64, 66, 68, 70, 72}

\* the lines that call heap_unrolled_
CallLines == {48, 77, 82}

\* the closing lines of heap_recursive and heap_unrolled_
ReturnLines == {50, 85}

\* a variant that leaves out the swap that follows a callback
AfterCallbackSkipsSwap(pc) == IF pc \in {41, 46} THEN 50 ELSE IF pc = 73 THEN 85 ELSE pc + 2

\* the line reached after the callback at line pc returns
AfterCallback(pc) == IF pc \in {41, 46} THEN 50 ELSE IF pc = 73 THEN 85 ELSE pc + 1

\* the second index of the literal swap at line pc (the first is 0)
LiteralSwapIndex(pc) == IF pc \in {66, 70} THEN 2 ELSE 1

\* a variant that always swaps with index 0
LoopSwapPartnerAlwaysZero(m, i) == 0

\* let j = if n % 2 == 0 { i } else { 0 }
LoopSwapPartner(m, i) == IF m % 2 = 0 THEN i ELSE 0

\* a variant that runs the loop once more
LoopContinuesOnceMore(m, i) == i < m

\* for i in 0..n - 1
LoopContinues(m, i) == i < m - 1

\* the n handed to heap_unrolled_ by the call at line pc of a frame with n = m
CalleeN(pc, m) == IF pc = 48 THEN m ELSE m - 1

\* the line the caller resumes at after the call at line pc
AfterCall(pc) == IF pc = 48 THEN 50 ELSE IF pc = 77 THEN 80 ELSE 85

Top == stack[Len(stack)]

SetTop(frame) == [stack EXCEPT ![Len(stack)] = frame]

Running == rstate = "running" /\ Len(stack) > 0

\* the caller calls heap_recursive(xs, f)
HeapRecursive ==
    /\ rstate = "idle"
    /\ rstate' = "running"
    /\ stack' = <<[fn |-> "heap_recursive", n |-> Len(xs), i |-> 0,
                   pc |-> RecursiveEntry(Len(xs))]>>
    /\ UNCHANGED <<xs, visited, swaps>>
    /\ UNCHANGED heapVars
    /\ UNCHANGED <<factVars, lexVars, ctlVars>>

\* f(xs): the callback of the tests, permutations.push(elt.to_owned())
Callback ==
    /\ Running
    /\ Top.pc \in CallbackLines
    /\ visited' = Append(visited, ToOwned(xs))
    /\ stack' = SetTop([Top EXCEPT !.pc = AfterCallback(Top.pc)])
    /\ swaps' = 0
    /\ UNCHANGED <<xs, rstate>>
    /\ UNCHANGED heapVars
    /\ UNCHANGED <<factVars, lexVars, ctlVars>>

\* xs.swap(0, 1) or xs.swap(0, 2) of the unrolled cases
LiteralSwap ==
    /\ Running
    /\ Top.pc \in LiteralSwapLines
    /\ xs' = SliceSwap(xs, 0, LiteralSwapIndex(Top.pc))
    /\ stack' = SetTop([Top EXCEPT !.pc = Top.pc + 1])
    /\ swaps' = swaps + 1
    /\ UNCHANGED <<rstate, visited>>
    /\ UNCHANGED heapVars
    /\ UNCHANGED <<factVars, lexVars, ctlVars>>

\* for i in 0..n - 1: the loop head, to the body or to the call after the loop
LoopHead ==
    /\ Running
    /\ Top.pc = 76
    /\ stack' = SetTop([Top EXCEPT !.pc = IF LoopContinues(Top.n, Top.i) THEN 77 ELSE 82])
    /\ UNCHANGED <<xs, rstate, visited, swaps>>
    /\ UNCHANGED heapVars
    /\ UNCHANGED <<factVars, lexVars, ctlVars>>

\* xs.swap(j, n - 1), the one swap between two iterations; then the next i
LoopSwap ==
    /\ Running
    /\ Top.pc = 80
    /\ xs' = SliceSwap(xs, LoopSwapPartner(Top.n, Top.i), Top.n - 1)
    /\ stack' = SetTop([Top EXCEPT !.pc = 76, !.i = Top.i + 1])
    /\ swaps' = swaps + 1
    /\ UNCHANGED <<rstate, visited>>
    /\ UNCHANGED heapVars
    /\ UNCHANGED <<factVars, lexVars, ctlVars>>

\* heap_unrolled_(n, xs, f) or heap_unrolled_(n - 1, xs, f); debug_assert!(n >= 3)
Call ==
    /\ Running
    /\ Top.pc \in CallLines
    /\ LET m == CalleeN(Top.pc, Top.n)
       IN  IF m >= 3
           THEN /\ stack' = Append(SetTop([Top EXCEPT !.pc = AfterCall(Top.pc)]),
                                   [fn |-> "heap_unrolled_", n |-> m, i |-> 0,
                                    pc |-> UnrolledEntry(m)])
                /\ UNCHANGED rstate
           ELSE /\ rstate' = "assert_failed"
                /\ UNCHANGED stack
    /\ UNCHANGED <<xs, visited, swaps>>
    /\ UNCHANGED heapVars
    /\ UNCHANGED <<factVars, lexVars, ctlVars>>

\* the end of heap_unrolled_ or of heap_recursive
Return ==
    /\ Running
    /\ Top.pc \in ReturnLines
    /\ stack' = SubSeq(stack, 1, Len(stack) - 1)
    /\ rstate' = IF Len(stack) = 1 THEN "returned" ELSE rstate
    /\ UNCHANGED <<xs, visited, swaps>>
    /\ UNCHANGED heapVars
    /\ UNCHANGED <<factVars, lexVars, ctlVars>>

(* ------------------- lexical order: next_permutation ------------------- *)

(* lib.rs declares  mod lexical  and re-exports LexicalPermutation; the     *)
(* module's file is not among the sources.  The helper is modelled from its *)
(* description: find the longest non-increasing suffix; if it is the whole  *)
(* slice, return false and leave the slice as it is; otherwise swap the     *)
(* pivot before the suffix with the smallest suffix element greater than    *)
(* it, reverse the suffix and return true.  Positions are 1-based here.     *)

\* the ordering relation over the elements
LexLess(a, b) == a < b

SetMin(S) == CHOOSE v \in S : \A w \in S : v <= w

SetMax(S) == CHOOSE v \in S : \A w \in S : v >= w

\* the first position of the longest non-increasing suffix of a non-empty s
LexSuffixStart(s) ==
    SetMin({i \in 1..Len(s) : \A k \in i..(Len(s) - 1) : ~LexLess(s[k], s[k + 1])})

\* a variant that takes the first suffix element greater than the pivot
LexPartnerFirst(s, i) == SetMin({k \in i..Len(s) : LexLess(s[i - 1], s[k])})

\* the position of the smallest suffix element greater than the pivot s[i - 1]:
\* the last one greater than it, the suffix being non-increasing
LexPartner(s, i) == SetMax({k \in i..Len(s) : LexLess(s[i - 1], s[k])})

\* s with the part from position i on reversed
ReverseFrom(s, i) ==
    [k \in 1..Len(s) |-> IF k < i THEN s[k] ELSE s[Len(s) + i - k]]

\* next_in_lexical_order(sequence, less_than) -> bool
LexicalNext(s) ==
    IF Len(s) < 2
    THEN [ok |-> FALSE, seq |-> s]
    ELSE LET i == LexSuffixStart(s)
         IN  IF i = 1
             THEN [ok |-> FALSE, seq |-> s]
             ELSE [ok |-> TRUE,
                   seq |-> ReverseFrom(SliceSwap(s, i - 2, LexPartner(s, i) - 1), i)]

\* a call of the helper on the slice
NextLexical ==
    /\ LET r == LexicalNext(lex)
       IN  /\ lex' = r.seq
           /\ lexret' = IF r.ok THEN "true" ELSE "false"
           /\ lexcount' = IF r.ok THEN lexcount + 1 ELSE lexcount
    /\ lexprev' = lex
    /\ UNCHANGED heapVars
    /\ UNCHANGED recVars
    /\ UNCHANGED <<factVars, ctlVars>>

(* ----------------------- control.rs: ControlFlow ----------------------- *)

(* A value of a type that implements ControlFlow is [type, tag, val]:       *)
(* (), Control::Continue, Control::Break(b), Ok(()) or Err(e).              *)

Continue == [type |-> "Control", tag |-> "Continue", val |-> 0]

Break(b) == [type |-> "Control", tag |-> "Break", val |-> b]

Ok == [type |-> "Result", tag |-> "Ok", val |-> 0]

Err(e) == [type |-> "Result", tag |-> "Err", val |-> e]

ControlValues ==
    {Unit, Continue, Ok}
        \cup {Break(b) : b \in 0..MaxCtlVal}
        \cup {Err(e) : e \in 0..MaxCtlVal}

\* fn continuing() -> Self of the three implementations
Continuing(type) ==
    IF type = "unit" THEN Unit ELSE IF type = "Control" THEN Continue ELSE Ok

\* a variant whose Result breaks on Ok
ShouldBreakOnOk(v) ==
    IF v.type = "unit" THEN FALSE
    ELSE IF v.type = "Control" THEN v.tag = "Break"
    ELSE v.tag = "Ok"

\* fn should_break(&self) -> bool: the default (false) for (), and the two
\* overriding implementations
ShouldBreak(v) ==
    IF v.type = "unit" THEN FALSE
    ELSE IF v.type = "Control" THEN v.tag = "Break"
    ELSE v.tag = "Err"

\* Control::break_value: the Option is << >> for None and <<b>> for Some(b)
BreakValue(v) == IF v.tag = "Break" THEN <<v.val>> ELSE << >>

\* try_control!(e) in a function: whether the function returns at the macro,
\* and the value it returns then
TryControl(v) ==
    IF ShouldBreak(v) THEN <<TRUE, v>> ELSE <<FALSE, v>>

ApplyContinuing ==
    /\ ctlop' = "continuing"
    /\ ctlres' = <<Continuing(ctlarg.type)>>
    /\ UNCHANGED ctlarg
    /\ UNCHANGED <<heapVars, recVars, factVars, lexVars>>

ApplyShouldBreak ==
    /\ ctlop' = "should_break"
    /\ ctlres' = <<ShouldBreak(ctlarg)>>
    /\ UNCHANGED ctlarg
    /\ UNCHANGED <<heapVars, recVars, factVars, lexVars>>

ApplyBreakValue ==
    /\ ctlarg.type = "Control"
    /\ ctlop' = "break_value"
    /\ ctlres' = BreakValue(ctlarg)
    /\ UNCHANGED ctlarg
    /\ UNCHANGED <<heapVars, recVars, factVars, lexVars>>

ApplyTryControl ==
    /\ ctlop' = "try_control"
    /\ ctlres' = TryControl(ctlarg)
    /\ UNCHANGED ctlarg
    /\ UNCHANGED <<heapVars, recVars, factVars, lexVars>>

(* ------------------------------ factorial ------------------------------ *)

\* a call  factorial(k), as the tests make it to predict the count
Factorial ==
    /\ \E k \in 0..MaxFactArg :
          /\ farg' = k
          /\ fres' = factorial(k)
    /\ UNCHANGED heapVars
    /\ UNCHANGED recVars
    /\ UNCHANGED <<lexVars, ctlVars>>

(* --------------------------- specifications ---------------------------- *)

Init == InitWith(Inputs(MaxLen))

Next == New \/ NextPermutation \/ IterNext \/ Reset

Spec == Init /\ [][Next]_vars

InitRun == InitWith(Inputs(MaxRunLen))

NextRun == New \/ NextPermutation \/ IterNext

SpecRun == InitRun /\ [][NextRun]_vars

InitRec == InitWith(Inputs(MaxRecLen))

NextRec == HeapRecursive \/ Callback \/ LiteralSwap \/ LoopHead \/ LoopSwap \/ Call \/ Return

SpecRec == InitRec /\ [][NextRec]_vars

\* a caller that runs heap_recursive to its return and then walks the same
\* input with a Heap, collecting what each of them produces
InitBoth == InitWith(Inputs(MaxBothLen))

BothNew == rstate = "returned" /\ New

BothNextPermutation == rstate = "returned" /\ NextPermutation

BothIterNext == rstate = "returned" /\ IterNext

NextBoth == NextRec \/ BothNew \/ BothNextPermutation \/ BothIterNext

SpecBoth == InitBoth /\ [][NextBoth]_vars

\* walkers over inputs of every length up to MAXHEAP and beyond, each asked
\* for at most MaxCalls permutations
LongInputs == {Identity(len) : len \in 0..(MAXHEAP + MaxOver)}

InitNew == InitWith(LongInputs \cup Inputs(MaxArbLen))

NewNextPermutation == count < MaxCalls /\ NextPermutation

NewIterNext == count < MaxCalls /\ IterNext

NextNew == New \/ NewNextPermutation \/ NewIterNext

SpecNew == InitNew /\ [][NextNew]_vars

(* ------------------------------- claims -------------------------------- *)

\* the arrangements in seq are pairwise distinct
PairwiseDistinct(seq) == Cardinality({seq[k] : k \in 1..Len(seq)}) = Len(seq)

\* s is a rearrangement of t: same elements, same multiplicities
Rearrangement(s, t) == Len(s) = Len(t) /\ Multiset(s) = Multiset(t)

\* the last element of a non-empty sequence
Last(seq) == seq[Len(seq)]

\* C1: over distinct elements, the permutations a new Heap returns until the
\* first None are n! in number, pairwise distinct, and each one is a
\* rearrangement of the input: every permutation is produced exactly once.
C1_EveryPermutationOnce ==
    (mode = "iter" /\ Distinct(orig)) =>
        /\ Len(items) = count
        /\ Len(items) > 0 => Rearrangement(Last(items), orig)
        /\ ret = "none" =>
              /\ Len(items) = factorial(Len(orig))
              /\ PairwiseDistinct(items)

C1_Witness ==
    /\ mode = "iter"
    /\ orig = Identity(5)
    /\ ret = "none"
    /\ Len(items) = 120
    /\ PairwiseDistinct(items)

\* C2: whatever the element values, a new Heap returns a permutation exactly
\* factorial(n) times and then None; once for n = 0 and for n = 1.
C2_CountIsFactorial ==
    /\ count <= factorial(Len(data))
    /\ ret = "none" => count = factorial(Len(data))
    /\ (ret = "none" /\ Len(data) <= 1) => count = 1

C2_Witness ==
    /\ orig = Zeros(5)
    /\ mode = "direct"
    /\ ret = "none"
    /\ count = 120

\* the order the test first_and_reset expects for [1, 2, 3]
Perm123 == << <<1, 2, 3>>, <<2, 1, 3>>, <<3, 1, 2>>, <<1, 3, 2>>, <<2, 3, 1>>, <<3, 2, 1>> >>

\* C3: for [1, 2, 3] the Iterator yields [1,2,3], [2,1,3], [3,1,2], [1,3,2],
\* [2,3,1], [3,2,1] in this order and then None; the collected items keep
\* these values in every later state.
C3_Order123 ==
    (mode = "iter" /\ orig = <<1, 2, 3>>) =>
        /\ Len(items) <= 6
        /\ \A k \in 1..Len(items) : items[k] = Perm123[k]
        /\ ret = "none" => items = Perm123

C3_Witness ==
    /\ mode = "iter"
    /\ orig = <<1, 2, 3>>
    /\ ret = "none"
    /\ items = Perm123
    /\ data = <<3, 2, 1>>

\* C4 as stated: for every length, over distinct elements, the arrangement the
\* slice is left in at exhaustion is the reversal of the input.
C4_LastIsReversal ==
    (Distinct(orig) /\ ret = "none") => data = Reverse(orig)

\* C4 as amended: the arrangement left at exhaustion is the reversal of the
\* input for the lengths 0 to 3, and is not the reversal for longer inputs.
C4_LastIsReversalUpTo3 ==
    (Distinct(orig) /\ ret = "none") =>
        /\ Len(orig) <= 3 => data = Reverse(orig)
        /\ Len(orig) >= 4 => data # Reverse(orig)
        /\ mode = "iter" => Last(items) = data

C4_Witness ==
    /\ Distinct(orig)
    /\ Len(orig) = 3
    /\ ret = "none"
    /\ count = 6
    /\ data = Reverse(orig)

\* C5: the first call of next_permutation after Heap::new or after reset makes
\* no swap: the slice and every counter stay as they are, the position goes
\* from the marker to 0, and a permutation is returned.
C5_FirstCallNoSwap ==
    [][(n = Sentinel /\ runs' = runs) =>
          /\ data' = data
          /\ c' = c
          /\ n' = 0
          /\ ret' = "some"
          /\ count' = count + 1]_vars

C5_Witness ==
    /\ Len(runs) = 1
    /\ runs[1].ret = "some"
    /\ runs[1].count = 2
    /\ ret = "some"
    /\ count = 1
    /\ n = 0
    /\ data = start
    /\ data # orig

\* C6: heap_recursive calls the callback exactly factorial(n) times whatever
\* the element values; over distinct elements the arrangements it passes are
\* pairwise distinct rearrangements of the input.
C6_RecursiveVisitsAll ==
    /\ Len(visited) <= factorial(Len(xs))
    /\ Len(visited) > 0 => Rearrangement(Last(visited), orig)
    /\ rstate = "returned" =>
          /\ Len(visited) = factorial(Len(xs))
          /\ Distinct(orig) => PairwiseDistinct(visited)

C6_Witness ==
    /\ rstate = "returned"
    /\ orig = Identity(5)
    /\ Len(visited) = 120
    /\ PairwiseDistinct(visited)

\* C7: from the same starting arrangement, the k-th arrangement the callback
\* of heap_recursive receives is the k-th permutation the Heap returns, and
\* both leave the slice in the same final arrangement.
C7_SameOrder ==
    Built =>
        /\ count <= Len(visited)
        /\ mode = "iter" => \A k \in 1..Len(items) : items[k] = visited[k]
        /\ ret = "some" => data = visited[count]
        /\ ret = "none" => (count = Len(visited) /\ data = xs)

C7_Witness ==
    /\ mode = "iter"
    /\ orig = Identity(5)
    /\ ret = "none"
    /\ Len(items) = 120
    /\ items = visited
    /\ data = xs

\* C8: reset, in any state, leaves the slice as it is and puts every counter
\* to 0 and the position to the marker, the state of a new Heap over the
\* current arrangement; the run that follows returns that arrangement first
\* and returns n! permutations before None.
C8_ResetRestartsFromCurrent ==
    /\ ret = "reset" =>
          /\ data = start
          /\ n = Sentinel
          /\ DOMAIN c = 0..(MAXHEAP - 2)
          /\ \A k \in DOMAIN c : c[k] = 0
          /\ count = 0
    /\ Len(runs) > 0 =>
          /\ count <= factorial(Len(data))
          /\ count = 1 => data = start
          /\ (mode = "iter" /\ count >= 1) => items[1] = start
          /\ ret = "none" => count = factorial(Len(data))

C8_Witness ==
    /\ Len(runs) = 1
    /\ Len(orig) = 3
    /\ Distinct(orig)
    /\ runs[1].ret = "some"
    /\ runs[1].count = 4
    /\ start # orig
    /\ ret = "none"
    /\ count = 6

\* C9: over three distinct elements, a full enumeration, reset, and a second
\* full enumeration: the second yields the six arrangements of the first in
\* the reverse order and ends with the input arrangement.
C9_SecondRunReversed ==
    (/\ mode = "iter"
     /\ Len(orig) = 3
     /\ Distinct(orig)
     /\ Len(runs) = 1
     /\ Len(runs[1].items) = 6) =>
        /\ \A k \in 1..Len(items) : items[k] = runs[1].items[7 - k]
        /\ ret = "none" =>
              /\ items = Reverse(runs[1].items)
              /\ data = orig

C9_Witness ==
    /\ mode = "iter"
    /\ orig = <<1, 2, 3>>
    /\ Len(runs) = 1
    /\ runs[1].ret = "none"
    /\ runs[1].items = Perm123
    /\ ret = "none"
    /\ items = Reverse(Perm123)
    /\ data = orig

\* C10: Heap::new refuses every slice longer than MAXHEAP and creates no Heap;
\* it accepts every length up to MAXHEAP, with every counter 0 and the
\* position at the marker; no later next_permutation call fails, and None is
\* returned only after all n! permutations.
C10_LengthCheckedAtNew ==
    /\ Len(data) > MAXHEAP => (ret \in {"unbuilt", "assert_failed"} /\ c = NoCounters)
    /\ Len(data) <= MAXHEAP => ret # "assert_failed"
    /\ ret = "new" =>
          /\ n = Sentinel
          /\ DOMAIN c = 0..(MAXHEAP - 2)
          /\ \A k \in DOMAIN c : c[k] = 0
    /\ ret \notin {"index_panic", "overflow"}
    /\ ret = "none" => count = factorial(Len(data))

C10_Witness ==
    /\ Len(data) = MAXHEAP + 1
    /\ ret = "assert_failed"
    /\ c = NoCounters

\* the callback of the early-termination scenario asks to stop at its third
\* invocation.  F is FnMut(&mut [T]): it returns (), so the request is the
\* callback's own state and heap_recursive receives nothing to test.
StopRequested == Len(visited) >= 3

\* C11: when the callback signals break at its third invocation, it is
\* invoked exactly three times in total and no swap is made after that
\* invocation.
C11_BreakStopsEnumeration ==
    /\ Len(visited) <= 3
    /\ StopRequested => swaps = 0

\* the tests' calls of factorial beside a walker that is run to exhaustion
NextFact == New \/ NextPermutation \/ IterNext \/ Factorial

SpecFact == Init /\ [][NextFact]_vars

\* the product of 1..=k
RECURSIVE Product(_)
Product(k) == IF k = 0 THEN 1 ELSE k * Product(k - 1)

\* C12: factorial(n) is the product of 1..=n: factorial(0) = 1,
\* factorial(1) = 1, factorial(5) = 120, factorial(n + 1) = (n + 1) *
\* factorial(n); it is the count the walker's test compares against.
C12_FactorialIsProduct ==
    fres # -1 =>
        /\ fres = Product(farg)
        /\ farg = 0 => fres = 1
        /\ farg = 1 => fres = 1
        /\ farg = 5 => fres = 120
        /\ farg >= 1 => fres = farg * factorial(farg - 1)
        /\ (ret = "none" /\ farg = Len(data)) => count = fres

C12_Witness ==
    /\ farg = 5
    /\ fres = 120
    /\ Len(data) = 3
    /\ ret = "none"

\* C13: once next_permutation (or the Iterator's next) has returned None,
\* every later call returns None and changes neither the slice nor the
\* counters, for every length, until reset; the slice keeps the last
\* arrangement returned.
C13_ExhaustionAbsorbing ==
    ret = "none" =>
        /\ NextPermutationResult(data, n, c) = [ret |-> "none", data |-> data, n |-> n, c |-> c]
        /\ count >= 1
        /\ mode = "iter" => Last(items) = data

C13_Witness ==
    /\ ret = "none"
    /\ mode = "iter"
    /\ Len(data) = 3
    /\ Len(runs) = 0
    /\ Len(items) = 6
    /\ NextPermutationResult(data, n, c).ret = "none"

\* C15 as stated: after every completed next_permutation call, counters[i] <= i
\* for every counter index i.
C15_CounterAtMostIndex ==
    Built => \A i \in DOMAIN c : c[i] <= i

\* C15 as amended: after every completed next_permutation call,
\* counters[i] <= i + 1 for every counter index i.
C15_CounterAtMostIndexPlusOne ==
    Built => \A i \in DOMAIN c : c[i] <= i + 1

C15_Witness ==
    /\ ret = "some"
    /\ Len(data) = 4
    /\ c[0] = 1
    /\ c[1] = 2
    /\ c[2] = 3

\* the larger of two numbers
Max(a, b) == IF a >= b THEN a ELSE b

\* C16: n is the marker exactly between Heap::new or reset and the next call
\* of next_permutation; it is 0 after every call that returns a permutation
\* and max(len - 1, 0) after a call that returns None.
C16_PositionMarker ==
    Built =>
        /\ n = Sentinel <=> ret \in {"new", "reset"}
        /\ ret = "some" => n = 0
        /\ ret = "none" => n = Max(Len(data) - 1, 0)

C16_Witness ==
    /\ ret = "none"
    /\ Len(data) = 3
    /\ n = 2
    /\ Len(runs) = 1
    /\ runs[1].ret = "some"

\* the lexical helper applied again and again to its input
InitLex == InitBase(Inputs(MaxLexLen)) /\ lex = data /\ ctlarg = Unit

NextLex == NextLexical

SpecLex == InitLex /\ [][NextLex]_vars

\* the number of arrangements of the distinct elements of s that come before
\* s in lexicographic order
LexRank(s) ==
    LET smaller(i) == Cardinality({k \in (i + 1)..Len(s) : s[k] < s[i]})
        RECURSIVE sum(_)
        sum(i) == IF i > Len(s) THEN 0
                  ELSE smaller(i) * factorial(Len(s) - i) + sum(i + 1)
    IN  sum(1)

\* the order the helper gives for [1, 2, 3], the input first
Lex123 == << <<1, 2, 3>>, <<1, 3, 2>>, <<2, 1, 3>>, <<2, 3, 1>>, <<3, 1, 2>>, <<3, 2, 1>> >>

\* C14: from the ascending arrangement of n distinct elements the lexical
\* helper returns true exactly n! - 1 times, each time leaving the
\* lexicographically next-larger arrangement ([1,3,2], [2,1,3], [2,3,1],
\* [3,1,2], [3,2,1] for [1,2,3]), and then false on the largest arrangement.
C14_LexicalOrder ==
    Distinct(orig) =>
        /\ lexret = "true" =>
              /\ Rearrangement(lex, orig)
              /\ LexRank(lex) = LexRank(lexprev) + 1
        /\ lexret = "false" =>
              /\ lex = lexprev
              /\ \A k \in 1..(Len(lex) - 1) : lex[k] > lex[k + 1]
        /\ orig = Identity(Len(orig)) =>
              /\ lexcount = LexRank(lex)
              /\ lexcount <= factorial(Len(orig)) - 1
              /\ lexret = "false" => lexcount = factorial(Len(orig)) - 1
        /\ orig = <<1, 2, 3>> => lex = Lex123[lexcount + 1]

C14_Witness ==
    /\ orig = Identity(4)
    /\ lexret = "false"
    /\ lexcount = 23
    /\ lex = <<4, 3, 2, 1>>

\* the positions (1-based) at which two arrangements of one length differ
Diff(s, t) == {k \in 1..Len(s) : s[k] # t[k]}

\* t is s with the elements at the Rust indices a and b exchanged
Exchanged(s, t, a, b) ==
    /\ Len(t) = Len(s)
    /\ t[a + 1] = s[b + 1]
    /\ t[b + 1] = s[a + 1]
    /\ \A k \in 1..Len(s) : (k # a + 1 /\ k # b + 1) => t[k] = s[k]

\* a step of the walker: a call of next_permutation that changed its state
WalkerStep == Built /\ <<data, n, c, ret, count>>' # <<data, n, c, ret, count>>

\* the step made one swap, of the indices j and i + 1 of level i, j <= i, with
\* j the counter of the level when i is even and 0 when i is odd
OneLevelSwap ==
    \E i \in 0..(Len(data) - 2) :
        LET j == IF i % 2 = 0 THEN c[i] ELSE 0
        IN  /\ j <= i
            /\ Exchanged(data, data', j, i + 1)
            /\ c'[i] = c[i] + 1
            /\ \A k \in DOMAIN c : (k > i => c'[k] = c[k]) /\ (k < i => c'[k] = 0)

\* C17: minimal change.  Every next_permutation call after the first that
\* returns a permutation makes exactly one swap, of two different positions
\* j and i + 1 with j <= i; the first call and a call that returns None make
\* none.  heap_recursive makes exactly one swap, of two different positions,
\* between two consecutive callbacks (the partner is index 0 when the level
\* size is odd and the loop index when it is even), none before the first
\* and none after the last.  Over distinct elements consecutive permutations differ in
\* exactly two positions.
C17_MinimalChange ==
    /\ [][/\ WalkerStep =>
                IF n # Sentinel /\ count' = count + 1
                THEN OneLevelSwap
                ELSE data' = data
          /\ Len(visited') = Len(visited) + 1 =>
                swaps = (IF Len(visited) = 0 THEN 0 ELSE 1)
          /\ swaps' = swaps + 1 =>
                \E a, b \in 0..(Len(xs) - 1) :
                    /\ a < b
                    /\ Exchanged(xs, xs', a, b)
                    /\ (b + 1) % 2 = 1 => a = 0
                    /\ (Top.pc = 80 /\ Top.n % 2 = 0) => (a = Top.i /\ b = Top.n - 1)
          /\ swaps' = swaps => xs' = xs]_vars
    /\ [](/\ swaps <= 1
          /\ rstate = "returned" => swaps = 0
          /\ (Distinct(orig) /\ Len(visited) >= 2) =>
                Cardinality(Diff(visited[Len(visited) - 1], Last(visited))) = 2
          /\ (Distinct(orig) /\ Len(items) >= 2) =>
                Cardinality(Diff(items[Len(items) - 1], Last(items))) = 2)

C17_Witness ==
    /\ orig = Identity(4)
    /\ rstate = "returned"
    /\ Len(visited) = 24
    /\ mode = "iter"
    /\ ret = "some"
    /\ count = 7
    /\ c[2] = 1
    /\ Diff(items[6], items[7]) = {1, 4}

\* C18: for every length up to MAXHEAP and every reachable state of a Heap,
\* no access is out of bounds and no counter overflows: the position is a
\* level index below max(len - 1, 1), every counter is at most its index + 1
\* (at most 15, within a u8), the counters of the indices >= len - 1 stay 0,
\* and the next call neither panics nor overflows.
C18_InBounds ==
    /\ ret \notin {"index_panic", "overflow"}
    /\ (Built /\ Len(data) <= MAXHEAP) =>
          /\ DOMAIN c = 0..(MAXHEAP - 2)
          /\ \A i \in DOMAIN c :
                /\ c[i] >= 0
                /\ c[i] <= i + 1
                /\ c[i] <= 15
                /\ i >= Len(data) - 1 => c[i] = 0
          /\ n # Sentinel => (n >= 0 /\ n <= Max(Len(data) - 1, 0))
          /\ NextPermutationResult(data, n, c).ret \in {"some", "none"}

C18_Witness ==
    /\ Len(data) = MAXHEAP
    /\ ret = "some"
    /\ count >= 100
    /\ c[3] >= 1
    /\ c[MAXHEAP - 2] = 0

\* the methods of ControlFlow and Control applied to one value
InitCtl == InitBase({<< >>}) /\ lex = << >> /\ ctlarg \in ControlValues

NextCtl == ApplyContinuing \/ ApplyShouldBreak \/ ApplyBreakValue \/ ApplyTryControl

SpecCtl == InitCtl /\ [][NextCtl]_vars

\* C19: continuing() never signals a break; should_break is false for (),
\* true for Control exactly on Break(_), true for Result exactly on Err(_);
\* break_value is Some(b) for Break(b) and None for Continue; try_control
\* returns from the enclosing function exactly when should_break is true.
C19_ControlFlow ==
    /\ ctlop = "continuing" =>
          /\ ctlres[1].type = ctlarg.type
          /\ ~ShouldBreak(ctlres[1])
          /\ ctlres[1].tag \notin {"Break", "Err"}
    /\ ctlop = "should_break" =>
          /\ ctlarg.type = "unit" => ctlres[1] = FALSE
          /\ ctlarg.type = "Control" => (ctlres[1] <=> ctlarg.tag = "Break")
          /\ ctlarg.type = "Result" => (ctlres[1] <=> ctlarg.tag = "Err")
    /\ ctlop = "break_value" =>
          /\ ctlarg.tag = "Break" => ctlres = <<ctlarg.val>>
          /\ ctlarg.tag = "Continue" => ctlres = << >>
    /\ ctlop = "try_control" =>
          /\ ctlres[1] <=> (ctlarg.tag \in {"Break", "Err"})
          /\ ctlres[1] => ctlres[2] = ctlarg

C19_Witness ==
    /\ ctlarg = Err(2)
    /\ ctlop = "try_control"
    /\ ctlres = <<TRUE, Err(2)>>

====
